---- MODULE Spec2Model ----
(***************************************************************************)
(* The PDF acquisition pipeline of dataset/download_s3.py (two thread      *)
(* pools driven by the main thread) and dataset/async_download_s3.py (an   *)
(* asyncio orchestrator with a thread pool for the archive processing).    *)
(* Both scripts keep the same ledger: the list collected_data_for_json,    *)
(* the set already_found_pdf_names and the counter valid_pdfs_found_count, *)
(* loaded from and saved to one JSON file.  The variable pipeline says     *)
(* which of the two scripts a behaviour is a run of.                       *)
(*                                                                         *)
(* A ledger entry is modelled by its filename and its token_count; the     *)
(* text and language fields are carried along unchanged by the code and    *)
(* are left out.  File names are numbers, ordered as the strings are.      *)
(* The content of an archive is not fixed in advance: each entry is drawn  *)
(* when the code reads it, which gives every archive every content.        *)
(***************************************************************************)
EXTENDS Integers, Sequences, FiniteSets, TLC

\* ---- program constants, scaled down
TARGET_PDF_COUNT == 2
MIN_TOKENS == 1
MAX_TOKENS == 2
TOTAL_ZIP_FILES == 4
MAX_CONCURRENT_DOWNLOADS == 2
MAX_CONCURRENT_PROCESSORS == 2
NUM_CONCURRENT_PIPELINES == 2
MAX_PROCESSING_WORKERS == 2

\* ---- bounds of the model
\* the document names that occur in the corpus are 1..NumNames
NumNames == 2
\* an archive holds at most MaxEntries PDF entries
MaxEntries == 2

Zips == 0 .. (TOTAL_ZIP_FILES - 1)
Names == 1 .. NumNames
TokenCounts == (MIN_TOKENS - 1) .. (MAX_TOKENS + 1)

VARIABLES
    pipeline,                  \* "threaded" (download_s3.py) or "async" (async_download_s3.py)
    pc,                        \* where the main thread / the orchestrator coroutine is
    db_file,                   \* the JSON file at db_path
    collected_data_for_json,   \* the ledger's list
    already_found_pdf_names,   \* the ledger's set of names
    valid_pdfs_found_count,    \* the ledger's counter
    stop_flag,                 \* stop_processing_flag / stop_all_processing
    zip_file_indices,          \* the archive indices not handed out yet
    download_futures,          \* threaded: the main thread's set of download futures
    process_futures,           \* threaded: the main thread's set of processing futures
    iter,                      \* threaded: the futures an as_completed() call has yet to yield
    active_tasks,              \* async: the orchestrator's set of manage_one_zip tasks
    done,                      \* async: the done set of asyncio.wait still to be handled
    task,                      \* per archive index: the state of its future / task
    staging,                   \* the archive files present in TEMP_ZIP_DOWNLOAD_DIR
    flush_count,               \* history: how often the ledger was written to db_file
    offered,                   \* history: the names of the documents in range that the
                               \* archives opened in this run hold
    events,                    \* history: what the last step did that left no other trace
    call,                      \* a call of get_zip_url_and_local_path or detect_language
    generator,                 \* core/bacher.py: an AzureBatchJsonlGenerator and its files
    batch_run                  \* batchruns/big_batch_loop.py: the state of main()

vars == << pipeline, pc, db_file, collected_data_for_json, already_found_pdf_names,
           valid_pdfs_found_count, stop_flag, zip_file_indices, download_futures,
           process_futures, iter, active_tasks, done, task, staging, flush_count, offered,
           events, call, generator, batch_run >>

ledger == << collected_data_for_json, already_found_pdf_names, valid_pdfs_found_count >>
orch == << download_futures, process_futures, iter, active_tasks, done >>

\* the state of the repository's other programs, which a run of the pipeline
\* does not touch
other == << call, generator, batch_run >>
NoCall == [fn |-> "none"]
NoGenerator == [made |-> FALSE]
NoBatchRun == [pc |-> "off"]

\* ---- values
NoDoc == [filename |-> 0, token_count |-> 0]
Docs == [filename : Names, token_count : TokenCounts]

\* What reading one PDF entry of an archive gives: a text with its token count
\* ("ok"), a failure of zf.read or of fitz (the entry is skipped), or a text on
\* which tokenizer.encode raises (it is outside every per-document try).
Entries ==
    [kind : {"ok"}, filename : Names, token_count : TokenCounts]
    \cup [kind : {"tokenizer_error"}, filename : Names, token_count : {0}]
    \cup [kind : {"unreadable"}, filename : {0}, token_count : {0}]

IdleTask == [st |-> "unscheduled", pos |-> 0, doc |-> NoDoc, result |-> ""]

InRange(token_count) == MIN_TOKENS <= token_count /\ token_count <= MAX_TOKENS

Filenames(data) == { data[i].filename : i \in 1 .. Len(data) }

\* ---- list.sort(key=lambda x: x['filename']): a stable sort by filename
RECURSIVE InsertByFilename(_, _)
InsertByFilename(x, sorted) ==
    IF sorted = << >> THEN << x >>
    ELSE IF x.filename < Head(sorted).filename THEN << x >> \o sorted
    ELSE << Head(sorted) >> \o InsertByFilename(x, Tail(sorted))

RECURSIVE SortByFilename(_)
SortByFilename(data) ==
    IF data = << >> THEN << >>
    ELSE InsertByFilename(data[Len(data)], SortByFilename(SubSeq(data, 1, Len(data) - 1)))

IsSortedUnique(data) == \A i \in 1 .. Len(data) - 1 : data[i].filename < data[i + 1].filename

\* ---- the ledger files an earlier run of the same script can have left:
\* sorted by filename, one entry per name, every entry in range, at least one
\* entry (an empty list is never written) and at most TARGET_PDF_COUNT.  The
\* code reads nothing but the filename of a loaded entry, so one token count
\* in range stands for all of them.
LedgerFiles ==
    { d \in UNION { [1 .. n -> [filename : Names, token_count : {MIN_TOKENS}]] :
                    n \in 1 .. TARGET_PDF_COUNT } :
        IsSortedUnique(d) }

DbFiles ==
    { [exists |-> FALSE, parsable |-> FALSE, data |-> << >>],
      [exists |-> TRUE, parsable |-> FALSE, data |-> << >>] }
    \cup { [exists |-> TRUE, parsable |-> TRUE, data |-> d] : d \in LedgerFiles }

\* the files a run of this specification starts from: no file, or a ledger
\* file that parses.  (A run over a file that does not parse is
\* SpecUnparsable: when the file's text decodes it takes, up to its save, the
\* steps of a run without a file.)
StartFiles == { f \in DbFiles : ~f.exists \/ f.parsable }

\* a script is started over one of the given files at db_path
StartsFrom(files) ==
    /\ pipeline \in {"threaded", "async"}
    /\ pc = "load"
    /\ db_file \in files
    /\ collected_data_for_json = << >>
    /\ already_found_pdf_names = {}
    /\ valid_pdfs_found_count = 0
    /\ stop_flag = FALSE
    /\ zip_file_indices = [i \in 1 .. TOTAL_ZIP_FILES |-> i - 1]
    /\ download_futures = {}
    /\ process_futures = {}
    /\ iter = {}
    /\ active_tasks = {}
    /\ done = {}
    /\ task = [z \in Zips |-> IdleTask]
    /\ staging = {}
    /\ flush_count = 0
    /\ offered = {}
    /\ events = {}
    /\ call = NoCall
    /\ generator = NoGenerator
    /\ batch_run = NoBatchRun

Init == StartsFrom(StartFiles)

\* (mutant: a load that leaves the set of names empty)
LoadedNamesNone(data) == {}

\* "for item in existing_data: already_found_pdf_names.add(item["filename"])"
LoadedNames(data) == Filenames(data)

\* (mutant: the counter set to the number of entries read)
LoadedCountOfEntries(data, names) == Len(data)

\* "valid_pdfs_found_count = len(already_found_pdf_names)"
LoadedCount(data, names) == Cardinality(names)

\* ---- startup: the ledger is loaded from db_path when the file parses.
\* For a file that does not parse, json.load(f) raises json.JSONDecodeError,
\* which the except clause catches ("Starting fresh"), when the bytes of the
\* file decode as UTF-8; when they do not, f.read() raises UnicodeDecodeError,
\* which is not among (json.JSONDecodeError, FileNotFoundError) and ends the
\* script.  Which of the two an unparsable file is, is drawn when it is read
LoadExistingData ==
    /\ pc = "load"
    /\ IF db_file.exists /\ db_file.parsable
         THEN /\ collected_data_for_json' = collected_data_for_json \o db_file.data
              /\ already_found_pdf_names' = already_found_pdf_names \cup LoadedNames(db_file.data)
              /\ valid_pdfs_found_count' = LoadedCount(db_file.data, already_found_pdf_names')
              /\ pc' = "seed"
       ELSE IF db_file.exists
         THEN /\ UNCHANGED ledger
              /\ \E decodes \in BOOLEAN : pc' = IF decodes THEN "seed" ELSE "UnicodeDecodeError"
       ELSE /\ UNCHANGED ledger
            /\ pc' = "seed"
    /\ UNCHANGED << other, pipeline, db_file, stop_flag, zip_file_indices, orch, task, staging,
                    flush_count, offered >>
    /\ events' = {}


\* ---- helpers on futures and tasks
Min(a, b) == IF a < b THEN a ELSE b

Submitted == [IdleTask EXCEPT !.st = "downloading"]

\* a future that its worker has finished with
Finished(z) == task[z].st \in {"fetched", "fetch_failed", "processed", "finished"}

\* a worker is still to run or running for it
Running(z) == task[z].st \in {"downloading", "writing", "queued", "processing", "accepting"}

\* the archives whose processing holds a worker of the processing pool
InProcessing == { z \in Zips : task[z].st \in {"processing", "accepting"} }

\* the downloads the pipeline counts as in flight: the threaded script's
\* "Downloads in flight" is len(download_futures), the asyncio script runs one
\* download per active pipeline task that has not fetched its archive yet
DownloadsInFlight ==
    IF pipeline = "threaded" THEN Cardinality(download_futures)
    ELSE Cardinality({ z \in active_tasks : task[z].st \in {"downloading", "writing"} })

\* (mutant: a pop that leaves the last index it took in the list)
RemainingWithLastTaken(n) ==
    IF n = 0 THEN zip_file_indices ELSE SubSeq(zip_file_indices, n, Len(zip_file_indices))

\* the list after n times zip_file_indices.pop(0) / next(zip_indices_iter)
Remaining(n) == SubSeq(zip_file_indices, n + 1, Len(zip_file_indices))

\* pop the first n indices and submit a download for each
TakeZips(n) ==
    LET batch == { zip_file_indices[i] : i \in 1 .. n }
    IN  /\ zip_file_indices' = Remaining(n)
        /\ task' = [z \in Zips |-> IF z \in batch THEN Submitted ELSE task[z]]

FirstZips(n) == { zip_file_indices[i] : i \in 1 .. n }

\* ======================= download: download_zip / download_zip_async =====

\* (mutant: a failed download leaves its file where it is)
KeepPartial(z) == staging

\* "if os.path.exists(local_zip_filepath): os.remove(local_zip_filepath)" of
\* the except branches
RemovePartial(z) == staging \ {z}

\* requests.get, raise_for_status or session.get raises before the file is
\* opened; the except branch removes a file at the path if there is one
DownloadFailsEarly(z) ==
    /\ task[z].st = "downloading"
    /\ pipeline = "async" => pc = "wait"
    /\ task' = [task EXCEPT ![z].st = IF pipeline = "threaded" THEN "fetch_failed" ELSE "finished",
                            ![z].result = "FETCH_ERROR"]
    /\ staging' = RemovePartial(z)
    /\ UNCHANGED << other, pipeline, pc, db_file, ledger, stop_flag, zip_file_indices, orch,
                    flush_count, offered >>
    /\ events' = {}

\* open(local_zip_filepath, 'wb'): the file exists from here on
DownloadOpensFile(z) ==
    /\ task[z].st = "downloading"
    /\ pipeline = "async" => pc = "wait"
    /\ task' = [task EXCEPT ![z].st = "writing"]
    /\ staging' = staging \cup {z}
    /\ UNCHANGED << other, pipeline, pc, db_file, ledger, stop_flag, zip_file_indices, orch,
                    flush_count, offered >>
    /\ events' = {}

\* a chunk fails to arrive or to be written: the partial file is removed
DownloadFailsMidway(z) ==
    /\ task[z].st = "writing"
    /\ pipeline = "async" => pc = "wait"
    /\ task' = [task EXCEPT ![z].st = IF pipeline = "threaded" THEN "fetch_failed" ELSE "finished",
                            ![z].result = "FETCH_ERROR"]
    /\ staging' = RemovePartial(z)
    /\ UNCHANGED << other, pipeline, pc, db_file, ledger, stop_flag, zip_file_indices, orch,
                    flush_count, offered >>
    /\ events' = {}

\* the last chunk is written.  download_zip returns the path to the main
\* thread; manage_one_zip goes on to loop.run_in_executor at once
DownloadCompletes(z) ==
    /\ task[z].st = "writing"
    /\ pipeline = "async" => pc = "wait"
    /\ task' = [task EXCEPT ![z].st = IF pipeline = "threaded" THEN "fetched" ELSE "queued"]
    /\ UNCHANGED << other, pipeline, pc, db_file, ledger, stop_flag, zip_file_indices, orch, staging,
                    flush_count, offered >>
    /\ events' = {}

\* ======================= download_s3.py: process_zip_file ================

\* (mutant: the archive file is left behind when processing failed)
RemoveOnExitUnlessFailure(z, result) == IF result = "FAILURE" THEN staging ELSE staging \ {z}

\* the finally clause of process_zip_file: os.remove(local_zip_filepath)
RemoveOnExit(z, result) == staging \ {z}

Return(z, result) ==
    /\ task' = [task EXCEPT ![z] = [IdleTask EXCEPT !.st = "processed", !.result = result]]
    /\ staging' = RemoveOnExit(z, result)

\* (mutant: the append without the double check under the lock)
MayAppendUnchecked == TRUE

\* the double check under data_lock before the append
MayAppend == valid_pdfs_found_count < TARGET_PDF_COUNT

\* (mutant: the range test without its upper bound)
QualifiesNoUpperBound(token_count) == MIN_TOKENS <= token_count

\* the test a document's token count has to pass (both scripts)
Qualifies(token_count) == InRange(token_count)

\* zipfile.ZipFile(path) succeeds on a worker of the processing pool
ProcessZipOpens(z) ==
    /\ pipeline = "threaded"
    /\ task[z].st = "queued"
    /\ Cardinality(InProcessing) < MAX_CONCURRENT_PROCESSORS
    /\ task' = [task EXCEPT ![z].st = "processing"]
    /\ UNCHANGED << other, pipeline, pc, db_file, ledger, stop_flag, zip_file_indices, orch, staging,
                    flush_count, offered >>
    /\ events' = {}

\* zipfile.ZipFile(path) raises: except Exception returns "FAILURE"
ProcessZipCorrupt(z) ==
    /\ pipeline = "threaded"
    /\ task[z].st = "queued"
    /\ Cardinality(InProcessing) < MAX_CONCURRENT_PROCESSORS
    /\ Return(z, "FAILURE")
    /\ UNCHANGED << other, pipeline, pc, db_file, ledger, stop_flag, zip_file_indices, orch,
                    flush_count, offered >>
    /\ events' = {"corrupt_archive"}

\* the names of the documents in range that the entries an archive holds
\* after its first n can have: the entries the loop does not get to when an
\* exception ends it
UnreadRest(n) == { S \in SUBSET Names : Cardinality(S) <= MaxEntries - n }

\* one turn of the loop over pdf_filenames_in_zip, up to the second
\* "with data_lock": the target check under the lock, the unlocked test of
\* already_found_pdf_names, zf.read, the text extraction and the range test
ProcessNextEntry(z) ==
    /\ pipeline = "threaded"
    /\ task[z].st = "processing"
    /\ task[z].pos < MaxEntries
    /\ IF valid_pdfs_found_count >= TARGET_PDF_COUNT
         THEN /\ Return(z, "TARGET_REACHED")
              /\ UNCHANGED offered
              /\ events' = {}
         ELSE \E e \in Entries :
                IF e.kind = "unreadable" \/ e.filename \in already_found_pdf_names
                  THEN /\ task' = [task EXCEPT ![z].pos = @ + 1]
                       /\ UNCHANGED << staging, offered >>
                       /\ events' = {}
                ELSE IF e.kind = "tokenizer_error"
                  THEN /\ Return(z, "FAILURE")
                       /\ \E rest \in UnreadRest(task[z].pos + 1) : offered' = offered \cup rest
                       /\ events' = {}
                ELSE IF Qualifies(e.token_count)
                  THEN /\ task' = [task EXCEPT ![z].pos = @ + 1, ![z].st = "accepting",
                                               ![z].doc = [filename |-> e.filename,
                                                           token_count |-> e.token_count]]
                       /\ offered' = offered \cup {e.filename}
                       /\ UNCHANGED staging
                       /\ events' = {}
                ELSE /\ task' = [task EXCEPT ![z].pos = @ + 1]
                     /\ UNCHANGED << staging, offered >>
                     /\ events' = {"out_of_range"}
    /\ UNCHANGED << other, pipeline, pc, db_file, ledger, stop_flag, zip_file_indices, orch, flush_count >>

\* the second "with data_lock": append, add and count if still below the
\* target, and return "TARGET_REACHED" when this append reached it
ProcessAccept(z) ==
    /\ pipeline = "threaded"
    /\ task[z].st = "accepting"
    /\ IF MayAppend
         THEN /\ collected_data_for_json' = Append(collected_data_for_json, task[z].doc)
              /\ already_found_pdf_names' = already_found_pdf_names \cup {task[z].doc.filename}
              /\ valid_pdfs_found_count' = valid_pdfs_found_count + 1
              /\ IF valid_pdfs_found_count' >= TARGET_PDF_COUNT
                   THEN Return(z, "TARGET_REACHED")
                   ELSE /\ task' = [task EXCEPT ![z].st = "processing", ![z].doc = NoDoc]
                        /\ UNCHANGED staging
              /\ events' = {}
         ELSE /\ task' = [task EXCEPT ![z].st = "processing", ![z].doc = NoDoc]
              /\ UNCHANGED << ledger, staging >>
              /\ events' = {"refused_at_target"}
    /\ UNCHANGED << other, pipeline, pc, db_file, stop_flag, zip_file_indices, orch,
                    flush_count, offered >>

\* the loop has gone through every entry: return "SUCCESS"
ProcessZipEnd(z) ==
    /\ pipeline = "threaded"
    /\ task[z].st = "processing"
    /\ Return(z, "SUCCESS")
    /\ UNCHANGED << other, pipeline, pc, db_file, ledger, stop_flag, zip_file_indices, orch,
                    flush_count, offered >>
    /\ events' = {}


\* ======================= download_s3.py: the main thread =================

\* (mutant: the seeding loop without its limit)
SeedCountUnbounded == Len(zip_file_indices)

\* how many downloads the seeding loop submits
SeedCount == Min(MAX_CONCURRENT_DOWNLOADS, Len(zip_file_indices))

\* "if not stop_processing_flag and zip_file_indices and
\*  len(download_futures) < MAX_CONCURRENT_DOWNLOADS", after the discard
MayRefill(futures) ==
    /\ ~stop_flag
    /\ zip_file_indices # << >>
    /\ Cardinality(futures) < MAX_CONCURRENT_DOWNLOADS

\* the initial seeding of download tasks
SeedDownloads ==
    /\ pipeline = "threaded"
    /\ pc = "seed"
    /\ IF valid_pdfs_found_count >= TARGET_PDF_COUNT
         THEN /\ stop_flag' = TRUE
              /\ UNCHANGED << zip_file_indices, download_futures, task >>
         ELSE /\ download_futures' = FirstZips(SeedCount)
              /\ TakeZips(SeedCount)
              /\ UNCHANGED stop_flag
    /\ pc' = "loop_top"
    /\ UNCHANGED << other, pipeline, db_file, ledger, process_futures, iter, active_tasks, done,
                    staging, flush_count, offered >>
    /\ events' = {}

\* "while download_futures or process_futures", the target check under the
\* lock, and the call as_completed(download_futures, timeout=1)
LoopTop ==
    /\ pipeline = "threaded"
    /\ pc = "loop_top"
    /\ IF download_futures = {} /\ process_futures = {}
         THEN pc' = "shutdown" /\ UNCHANGED << stop_flag, iter >>
       ELSE IF valid_pdfs_found_count >= TARGET_PDF_COUNT
         THEN pc' = "shutdown" /\ stop_flag' = TRUE /\ UNCHANGED iter
       ELSE pc' = "reap_dl" /\ iter' = download_futures /\ UNCHANGED stop_flag
    /\ UNCHANGED << other, pipeline, db_file, ledger, zip_file_indices, download_futures,
                    process_futures, active_tasks, done, task, staging, flush_count, offered >>
    /\ events' = {}

\* as_completed yields a finished download: discard it, hand a fetched
\* archive to the processing pool, and submit the next download
ReapDownload(z) ==
    /\ pipeline = "threaded"
    /\ pc = "reap_dl"
    /\ z \in iter
    /\ task[z].st \in {"fetched", "fetch_failed"}
    /\ iter' = iter \ {z}
    /\ process_futures' = IF task[z].st = "fetched" THEN process_futures \cup {z}
                          ELSE process_futures
    /\ LET reaped == IF task[z].st = "fetched" THEN [task[z] EXCEPT !.st = "queued"]
                     ELSE [task[z] EXCEPT !.st = "dropped"]
       IN  IF MayRefill(download_futures \ {z})
             THEN /\ download_futures' = (download_futures \ {z}) \cup {Head(zip_file_indices)}
                  /\ zip_file_indices' = Tail(zip_file_indices)
                  /\ task' = [task EXCEPT ![z] = reaped, ![Head(zip_file_indices)] = Submitted]
             ELSE /\ download_futures' = download_futures \ {z}
                  /\ task' = [task EXCEPT ![z] = reaped]
                  /\ UNCHANGED zip_file_indices
    /\ UNCHANGED << other, pipeline, pc, db_file, ledger, stop_flag, active_tasks, done, staging,
                    flush_count, offered >>
    /\ events' = {}

\* the download iterator is exhausted: as_completed(process_futures, timeout=1)
ReapDownloadsEnd ==
    /\ pipeline = "threaded"
    /\ pc = "reap_dl"
    /\ iter = {}
    /\ iter' = process_futures
    /\ pc' = "reap_proc"
    /\ UNCHANGED << other, pipeline, db_file, ledger, stop_flag, zip_file_indices, download_futures,
                    process_futures, active_tasks, done, task, staging, flush_count, offered >>
    /\ events' = {}

\* (mutant: a failed archive ends the run like a reached target)
StopsTheRunOnFailure(result) == result \in {"TARGET_REACHED", "FAILURE"}

\* "if result == "TARGET_REACHED": stop_processing_flag = True; break"
StopsTheRun(result) == result = "TARGET_REACHED"

\* as_completed yields a finished processing future
ReapProcess(z) ==
    /\ pipeline = "threaded"
    /\ pc = "reap_proc"
    /\ z \in iter
    /\ task[z].st = "processed"
    /\ process_futures' = process_futures \ {z}
    /\ task' = [task EXCEPT ![z] = [IdleTask EXCEPT !.st = "reaped"]]
    /\ IF StopsTheRun(task[z].result)
         THEN stop_flag' = TRUE /\ iter' = {} /\ pc' = "shutdown"
         ELSE UNCHANGED stop_flag /\ iter' = iter \ {z} /\ UNCHANGED pc
    /\ UNCHANGED << other, pipeline, db_file, ledger, zip_file_indices, download_futures, active_tasks,
                    done, staging, flush_count, offered >>
    /\ events' = {}

\* the processing iterator is exhausted: the if / elif chain that ends the
\* body of the while loop (stop_processing_flag is False here)
ReapProcessesEnd ==
    /\ pipeline = "threaded"
    /\ pc = "reap_proc"
    /\ iter = {}
    /\ IF download_futures = {} /\ process_futures = {} /\ zip_file_indices # << >>
         THEN /\ download_futures' = {Head(zip_file_indices)}
              /\ TakeZips(1)
              /\ pc' = "loop_top"
       ELSE IF download_futures = {} /\ process_futures = {}
         THEN /\ pc' = "shutdown"
              /\ UNCHANGED << download_futures, zip_file_indices, task >>
       ELSE /\ pc' = "loop_top"
            /\ UNCHANGED << download_futures, zip_file_indices, task >>
    /\ UNCHANGED << other, pipeline, db_file, ledger, stop_flag, process_futures, iter, active_tasks,
                    done, staging, flush_count, offered >>
    /\ events' = {}

\* as_completed(fs, timeout=1) raises TimeoutError from __next__ when a future
\* of fs is still pending one second after the call.  Nothing catches it: it
\* leaves the while loop and the with statement
AsCompletedTimeout ==
    /\ pipeline = "threaded"
    /\ pc \in {"reap_dl", "reap_proc"}
    /\ \E z \in iter : ~Finished(z)
    /\ iter' = {}
    /\ pc' = "unwinding"
    /\ UNCHANGED << other, pipeline, db_file, ledger, stop_flag, zip_file_indices, download_futures,
                    process_futures, active_tasks, done, task, staging, flush_count, offered >>
    /\ events' = {}

\* leaving the with statement: both executors' shutdown(wait=True) return when
\* every submitted future has run.  After a break the script goes on to the
\* drain loops, under the exception it ends with the traceback
ExecutorsShutDown ==
    /\ pipeline = "threaded"
    /\ pc \in {"shutdown", "unwinding"}
    /\ \A z \in Zips : ~Running(z)
    /\ pc' = IF pc = "shutdown" THEN "drain" ELSE "TimeoutError"
    /\ UNCHANGED << other, pipeline, db_file, ledger, stop_flag, zip_file_indices, orch, task, staging,
                    flush_count, offered >>
    /\ events' = {}

\* the two drain loops after the with statement.  process_executor is shut
\* down by now: submit() for a fetched archive raises RuntimeError, which
\* nothing catches
Drain ==
    /\ pipeline = "threaded"
    /\ pc = "drain"
    /\ pc' = IF \E z \in download_futures : task[z].st = "fetched" THEN "RuntimeError"
             ELSE "save"
    /\ UNCHANGED << other, pipeline, db_file, ledger, stop_flag, zip_file_indices, orch, task, staging,
                    flush_count, offered >>
    /\ events' = {}


\* ======================= async_download_s3.py ============================

\* how many pipeline tasks the initial fill creates
FillCount == Min(NUM_CONCURRENT_PIPELINES, Len(zip_file_indices))

\* "if not stop_all_processing and valid_pdfs_found_count < TARGET_PDF_COUNT"
MaySchedule(stop, count) == ~stop /\ count < TARGET_PDF_COUNT

\* the contents an archive can have
ZipContents == UNION { [1 .. n -> Entries] : n \in 0 .. MaxEntries }

AsDoc(e) == [filename |-> e.filename, token_count |-> e.token_count]

\* found_pdfs_data_in_zip of process_zip_file_sync for an archive that opens
\* and whose every text tokenizes: the readable documents in range, in order
RECURSIVE FoundPdfs(_)
FoundPdfs(contents) ==
    IF contents = << >> THEN << >>
    ELSE IF Head(contents).kind = "ok" /\ Qualifies(Head(contents).token_count)
      THEN << AsDoc(Head(contents)) >> \o FoundPdfs(Tail(contents))
    ELSE FoundPdfs(Tail(contents))

\* what process_zip_file_sync can return: the lists of the archives in which
\* every text tokenizes (on any other it raises), each with whether a readable
\* document was left out for its token count
SyncOutcomes ==
    { [pdf_results |-> FoundPdfs(c),
       discarded |-> \E i \in 1 .. Len(c) : c[i].kind = "ok" /\ ~Qualifies(c[i].token_count)] :
        c \in { c \in ZipContents : \A i \in 1 .. Len(c) : c[i].kind # "tokenizer_error" } }

NoOutcome == [pdf_results |-> << >>, discarded |-> FALSE]

\* the initial fill of pipeline tasks, and the first test of "while active_tasks"
InitialFill ==
    /\ pipeline = "async"
    /\ pc = "seed"
    /\ IF MaySchedule(stop_flag, valid_pdfs_found_count)
         THEN /\ active_tasks' = FirstZips(FillCount)
              /\ TakeZips(FillCount)
         ELSE UNCHANGED << active_tasks, zip_file_indices, task >>
    /\ pc' = IF active_tasks' = {} THEN "save" ELSE "wait"
    /\ UNCHANGED << other, pipeline, db_file, ledger, stop_flag, download_futures, process_futures,
                    iter, done, staging, flush_count, offered >>
    /\ events' = {}

\* a worker of the thread pool takes up process_zip_file_sync for the archive
SyncProcessStarts(z) ==
    /\ pipeline = "async"
    /\ task[z].st = "queued"
    /\ Cardinality(InProcessing) < MAX_PROCESSING_WORKERS
    /\ task' = [task EXCEPT ![z].st = "processing"]
    /\ UNCHANGED << other, pipeline, pc, db_file, ledger, stop_flag, zip_file_indices, orch, staging,
                    flush_count, offered >>
    /\ events' = {}

\* process_zip_file_sync returns its list and manage_one_zip returns
\* (zip_idx, pdf_results, False, local_zip_filepath).  Nothing reads the list
\* before the orchestrator handles the task: it is drawn there
SyncProcessReturns(z) ==
    /\ pipeline = "async"
    /\ pc = "wait"
    /\ task[z].st = "processing"
    /\ task' = [task EXCEPT ![z].st = "finished", ![z].result = "OK"]
    /\ UNCHANGED << other, pipeline, pc, db_file, ledger, stop_flag, zip_file_indices, orch, staging,
                    flush_count, offered >>
    /\ events' = {}

\* process_zip_file_sync re-raises (BadZipFile, or tokenizer.encode raising
\* on a text) and manage_one_zip returns (zip_idx, None, True, local_zip_filepath)
SyncProcessRaises(z) ==
    /\ pipeline = "async"
    /\ pc = "wait"
    /\ task[z].st = "processing"
    /\ task' = [task EXCEPT ![z].st = "finished", ![z].result = "PROCESS_ERROR"]
    /\ UNCHANGED << other, pipeline, pc, db_file, ledger, stop_flag, zip_file_indices, orch, staging,
                    flush_count, offered >>
    /\ events' = {}

\* "done, pending = await asyncio.wait(active_tasks, return_when=FIRST_COMPLETED)"
WaitFirstCompleted ==
    /\ pipeline = "async"
    /\ pc = "wait"
    /\ \E z \in active_tasks : Finished(z)
    /\ done' = { z \in active_tasks : Finished(z) }
    /\ active_tasks' = { z \in active_tasks : ~Finished(z) }
    /\ pc' = "handle"
    /\ UNCHANGED << other, pipeline, db_file, ledger, stop_flag, zip_file_indices, download_futures,
                    process_futures, iter, task, staging, flush_count, offered >>
    /\ events' = {}

\* the test before each append of the orchestrator's loop over a task's results
MayAppendAsync(L) == ~(L.stop \/ L.count >= TARGET_PDF_COUNT)

\* "for pdf_data in pdf_results_from_zip", on the ledger L
\* (refused: the loop broke off with results left)
RECURSIVE AcceptResults(_, _)
AcceptResults(results, L) ==
    IF results = << >> THEN L
    ELSE IF ~MayAppendAsync(L) THEN [L EXCEPT !.refused = TRUE]
    ELSE IF Head(results).filename \notin L.names
      THEN AcceptResults(Tail(results),
                         [data |-> Append(L.data, Head(results)),
                          names |-> L.names \cup {Head(results).filename},
                          count |-> L.count + 1,
                          stop |-> L.stop \/ L.count + 1 >= TARGET_PDF_COUNT,
                          refused |-> FALSE])
    ELSE AcceptResults(Tail(results), L)

\* "if path_to_delete and os.path.exists(path_to_delete): os.remove(path_to_delete)"
RemoveHandled(z, has_path) == IF has_path THEN staging \ {z} ELSE staging

\* one turn of "for task in done": the results are accepted, the archive file
\* is removed and one new pipeline task is scheduled; after the last turn the
\* loop "while active_tasks" goes on or ends
HandleTask(z) ==
    /\ pipeline = "async"
    /\ pc = "handle"
    /\ z \in done
    /\ \E outcome \in IF task[z].result = "OK" THEN SyncOutcomes ELSE {NoOutcome} :
       LET L == AcceptResults(outcome.pdf_results,
                              [data |-> collected_data_for_json,
                               names |-> already_found_pdf_names,
                               count |-> valid_pdfs_found_count,
                               stop |-> stop_flag,
                               refused |-> FALSE])
       IN  /\ events' = (IF outcome.discarded THEN {"out_of_range"} ELSE {})
                        \cup (IF L.refused THEN {"refused_at_target"} ELSE {})
           /\ collected_data_for_json' = L.data
           /\ already_found_pdf_names' = L.names
           /\ valid_pdfs_found_count' = L.count
           /\ stop_flag' = L.stop
           /\ staging' = RemoveHandled(z, task[z].result # "FETCH_ERROR")
           /\ \E lost \in IF task[z].result = "PROCESS_ERROR" THEN UnreadRest(0) ELSE {{}} :
                  offered' = offered \cup Filenames(outcome.pdf_results) \cup lost
           /\ IF MaySchedule(L.stop, L.count) /\ zip_file_indices # << >>
                THEN /\ active_tasks' = active_tasks \cup {Head(zip_file_indices)}
                     /\ zip_file_indices' = Tail(zip_file_indices)
                     /\ task' = [task EXCEPT ![z] = [IdleTask EXCEPT !.st = "handled"],
                                             ![Head(zip_file_indices)] = Submitted]
                ELSE /\ task' = [task EXCEPT ![z] = [IdleTask EXCEPT !.st = "handled"]]
                     /\ UNCHANGED << active_tasks, zip_file_indices >>
    /\ done' = done \ {z}
    /\ pc' = IF done' # {} THEN "handle" ELSE IF active_tasks' = {} THEN "save" ELSE "wait"
    /\ UNCHANGED << other, pipeline, db_file, download_futures, process_futures, iter, flush_count >>

\* ======================= saving the ledger (both scripts) ================

\* the file at db_path after a save of the list that succeeds
FlushedFile(data, file) ==
    IF data = << >> THEN file
    ELSE [exists |-> TRUE, parsable |-> TRUE, data |-> SortByFilename(data)]

\* sort, open(db_path, 'w') and json.dump succeed
SaveLedger ==
    /\ pc = "save"
    /\ collected_data_for_json # << >>
    /\ collected_data_for_json' = SortByFilename(collected_data_for_json)
    /\ db_file' = FlushedFile(collected_data_for_json, db_file)
    /\ flush_count' = flush_count + 1
    /\ pc' = "done"
    /\ UNCHANGED << other, pipeline, already_found_pdf_names, valid_pdfs_found_count, stop_flag,
                    zip_file_indices, orch, task, staging, offered >>
    /\ events' = {}

\* open(db_path, 'w') raises IOError: the message is printed, the file is as it was
SaveFailsOnOpen ==
    /\ pc = "save"
    /\ collected_data_for_json # << >>
    /\ collected_data_for_json' = SortByFilename(collected_data_for_json)
    /\ pc' = "done"
    /\ UNCHANGED << other, pipeline, db_file, already_found_pdf_names, valid_pdfs_found_count,
                    stop_flag, zip_file_indices, orch, task, staging, flush_count, offered >>
    /\ events' = {"io_error"}

\* json.dump raises IOError after open(db_path, 'w') truncated the file: the
\* file holds the beginning of the array
SaveFailsMidway ==
    /\ pc = "save"
    /\ collected_data_for_json # << >>
    /\ collected_data_for_json' = SortByFilename(collected_data_for_json)
    /\ db_file' = [exists |-> TRUE, parsable |-> FALSE, data |-> << >>]
    /\ pc' = "done"
    /\ UNCHANGED << other, pipeline, already_found_pdf_names, valid_pdfs_found_count, stop_flag,
                    zip_file_indices, orch, task, staging, flush_count, offered >>
    /\ events' = {"io_error"}

\* "if collected_data_for_json:" is false: nothing is written
SaveNothing ==
    /\ pc = "save"
    /\ collected_data_for_json = << >>
    /\ pc' = "done"
    /\ UNCHANGED << other, pipeline, db_file, ledger, stop_flag, zip_file_indices, orch, task, staging,
                    flush_count, offered >>
    /\ events' = {}

\* ======================= the specification ===============================

Next ==
    \/ LoadExistingData
    \/ \E z \in Zips : DownloadFailsEarly(z)
    \/ \E z \in Zips : DownloadOpensFile(z)
    \/ \E z \in Zips : DownloadFailsMidway(z)
    \/ \E z \in Zips : DownloadCompletes(z)
    \/ \E z \in Zips : ProcessZipOpens(z)
    \/ \E z \in Zips : ProcessZipCorrupt(z)
    \/ \E z \in Zips : ProcessNextEntry(z)
    \/ \E z \in Zips : ProcessAccept(z)
    \/ \E z \in Zips : ProcessZipEnd(z)
    \/ SeedDownloads
    \/ LoopTop
    \/ \E z \in Zips : ReapDownload(z)
    \/ ReapDownloadsEnd
    \/ \E z \in Zips : ReapProcess(z)
    \/ ReapProcessesEnd
    \/ AsCompletedTimeout
    \/ ExecutorsShutDown
    \/ Drain
    \/ InitialFill
    \/ \E z \in Zips : SyncProcessStarts(z)
    \/ \E z \in Zips : SyncProcessReturns(z)
    \/ \E z \in Zips : SyncProcessRaises(z)
    \/ WaitFirstCompleted
    \/ \E z \in Zips : HandleTask(z)
    \/ SaveLedger
    \/ SaveFailsOnOpen
    \/ SaveFailsMidway
    \/ SaveNothing

Spec == Init /\ [][Next]_vars

\* the file at db_path exists and does not parse as JSON
UnparsableFile == [exists |-> TRUE, parsable |-> FALSE, data |-> << >>]

\* a run of either script over a ledger file that does not parse
InitUnparsable == StartsFrom({UnparsableFile})

SpecUnparsable == InitUnparsable /\ [][Next]_vars

\* the script has ended: normally, or with an uncaught exception
Ended == pc \in {"done", "TimeoutError", "RuntimeError", "UnicodeDecodeError"}


\* ======================= the other programs of the repository ============

\* the pipeline's variables, which the specifications below leave alone
pipeline_vars == << pipeline, pc, db_file, ledger, stop_flag, zip_file_indices, orch, task,
                    staging, flush_count, offered, events >>

\* no script of the pipeline is running
NoPipeline ==
    /\ pipeline = "none"
    /\ pc = "off"
    /\ db_file = [exists |-> FALSE, parsable |-> FALSE, data |-> << >>]
    /\ collected_data_for_json = << >>
    /\ already_found_pdf_names = {}
    /\ valid_pdfs_found_count = 0
    /\ stop_flag = FALSE
    /\ zip_file_indices = << >>
    /\ download_futures = {}
    /\ process_futures = {}
    /\ iter = {}
    /\ active_tasks = {}
    /\ done = {}
    /\ task = [z \in Zips |-> IdleTask]
    /\ staging = {}
    /\ flush_count = 0
    /\ offered = {}
    /\ events = {}

\* ======================= get_zip_url_and_local_path (both scripts) ========

\* the largest archive number the function is called with: the scripts call it
\* with the numbers of range(TOTAL_ZIP_FILES), TOTAL_ZIP_FILES = 7933
MaxZipNum == 7932

\* A string is the sequence of its characters; a decimal digit is the number
\* it stands for.  The two configured strings are kept as one item each.
BASE_URL == << "https://digitalcorpora.s3.amazonaws.com/corpora/files/CC-MAIN-2021-31-PDF-UNTRUNCATED/" >>

TEMP_ZIP_DOWNLOAD_DIR(script) ==
    IF script = "threaded" THEN << "/dev/shm/temp_zip_processing" >>
    ELSE << "temp_zip_processing_async" >>

\* str(n) of a number n >= 0
RECURSIVE Decimal(_)
Decimal(n) == IF n < 10 THEN << n >> ELSE Decimal(n \div 10) \o << n % 10 >>

\* (mutant: the number formatted without its padding)
FormatUnpadded(n) == Decimal(n)

\* f"{n:04d}": the decimal digits, padded with zeros on the left to four
Format04d(n) ==
    IF Len(Decimal(n)) >= 4 THEN Decimal(n)
    ELSE [k \in 1 .. (4 - Len(Decimal(n))) |-> 0] \o Decimal(n)

\* os.path.join(a, b) of a directory that does not end with a separator and a
\* relative name
PathJoin(a, b) == a \o << "/" >> \o b

get_zip_url_and_local_path(script, zip_num_int) ==
    LET zip_filename_short == Format04d(zip_num_int) \o << ".", "z", "i", "p" >>
        zip_group_start == (zip_num_int \div 1000) * 1000
        zip_group_end == zip_group_start + 999
        zip_subdir_path == << "z", "i", "p", "f", "i", "l", "e", "s", "/" >>
                           \o Format04d(zip_group_start) \o << "-" >>
                           \o Format04d(zip_group_end) \o << "/" >>
    IN  [full_zip_url |-> BASE_URL \o zip_subdir_path \o zip_filename_short,
         local_download_path |-> PathJoin(TEMP_ZIP_DOWNLOAD_DIR(script), zip_filename_short)]

NoResult == [full_zip_url |-> << >>, local_download_path |-> << >>]

\* a call of the function is about to be made, in either script, with any
\* archive number of the range
InitLocator ==
    /\ NoPipeline
    /\ call \in [fn : {"get_zip_url_and_local_path"}, script : {"threaded", "async"},
                 zip_num_int : 0 .. MaxZipNum, returned : {FALSE}, result : {NoResult}]
    /\ generator = NoGenerator
    /\ batch_run = NoBatchRun

LocatorReturns ==
    /\ call.fn = "get_zip_url_and_local_path"
    /\ ~call.returned
    /\ call' = [call EXCEPT !.returned = TRUE,
                            !.result = get_zip_url_and_local_path(call.script, call.zip_num_int)]
    /\ UNCHANGED << pipeline_vars, generator, batch_run >>

NextLocator == LocatorReturns

SpecLocator == InitLocator /\ [][NextLocator]_vars

\* ======================= detect_language / detect_language_sync ==========

\* the length the text has to exceed for langdetect to be called
TooShortLimit == 50

\* the texts of the model have 0 to MaxTextLen characters
MaxTextLen == 52

\* what langdetect's detect(text) does with the text: it returns a language
\* code or raises LangDetectException
DetectorOutcomes == {"en", "nl", "raises"}

\* "if len(text) > 50: return detect(text)"
CallsDetector(text_len) == text_len > TooShortLimit

\* the function body: the try, the length test, the call of the detector and
\* the except Exception that returns "unknown"
detect_language(text_len, detector) ==
    IF CallsDetector(text_len)
      THEN [result |-> IF detector = "raises" THEN "unknown" ELSE detector,
            detector_called |-> TRUE, raised |-> FALSE]
      ELSE [result |-> "too_short_for_detection", detector_called |-> FALSE, raised |-> FALSE]

InitLanguage ==
    /\ NoPipeline
    /\ call \in [fn : {"detect_language"}, text_len : 0 .. MaxTextLen,
                 detector : DetectorOutcomes, returned : {FALSE},
                 result : {""}, detector_called : {FALSE}, raised : {FALSE}]
    /\ generator = NoGenerator
    /\ batch_run = NoBatchRun

DetectLanguageReturns ==
    /\ call.fn = "detect_language"
    /\ ~call.returned
    /\ LET out == detect_language(call.text_len, call.detector)
       IN  call' = [call EXCEPT !.returned = TRUE, !.result = out.result,
                                !.detector_called = out.detector_called,
                                !.raised = out.raised]
    /\ UNCHANGED << pipeline_vars, generator, batch_run >>

NextLanguage == DetectLanguageReturns

SpecLanguage == InitLanguage /\ [][NextLanguage]_vars

\* ======================= core/bacher.py: AzureBatchJsonlGenerator =========

\* max_file_size_bytes of the generator (its default, scaled down)
DEFAULT_MAX_FILE_SIZE_BYTES == 3

\* a run makes at most MaxRequests calls of add_request
MaxRequests == 4
\* a request line, with its newline, has 1 to MaxLineSize bytes
MaxLineSize == 5

FileIndices == 0 .. MaxRequests

\* os.path.getsize of a file that holds the given lines (0 for a file that
\* does not exist: the code tests os.path.exists first)
RECURSIVE FileSize(_)
FileSize(lines) == IF lines = << >> THEN 0 ELSE Head(lines).size + FileSize(Tail(lines))

\* A generator after __init__.  Its file names carry the five hexadecimal
\* digits of a fresh uuid4, so the output directory holds none of its files.
\* file_handle is the index of the file the handle is open on, -1 for None.
NewGenerator ==
    [made |-> TRUE,
     max_file_size_bytes |-> DEFAULT_MAX_FILE_SIZE_BYTES,
     file_handle |-> -1,
     task_id_counter |-> 0,
     current_file_index |-> 0,
     generated_files |-> {},
     files |-> [k \in FileIndices |-> << >>],
     requests |-> 0]

close_file(g) == [g EXCEPT !.file_handle = -1]

\* _ensure_file_open: nothing to do when the handle is open on the file of
\* current_file_index; otherwise close, open that file for appending, record
\* it, and reset the task counter when the file is new or empty
ensure_file_open(g) ==
    IF g.file_handle = g.current_file_index THEN g
    ELSE [g EXCEPT !.file_handle = g.current_file_index,
                   !.generated_files = @ \cup {g.current_file_index},
                   !.task_id_counter = IF FileSize(g.files[g.current_file_index]) = 0
                                         THEN 0 ELSE @]

\* (mutant: the size test dropped, the line always goes to the current file)
NeedsNewFileNever(size_on_disk, line_size, max) == FALSE

\* "if current_file_size_on_disk > 0 and
\*  (current_file_size_on_disk + line_size_with_newline > self.max_file_size_bytes)"
NeedsNewFile(size_on_disk, line_size, max) ==
    size_on_disk > 0 /\ size_on_disk + line_size > max

\* add_request for a line of line_size bytes (newline included), with or
\* without a custom_id
add_request(g, line_size, has_custom_id) ==
    LET opened == ensure_file_open(g)
        size_on_disk == FileSize(opened.files[opened.current_file_index])
        target == IF NeedsNewFile(size_on_disk, line_size, opened.max_file_size_bytes)
                    THEN ensure_file_open([close_file(opened) EXCEPT !.current_file_index = @ + 1])
                    ELSE opened
        line == [request |-> g.requests + 1, size |-> line_size]
    IN  [target EXCEPT !.files[target.file_handle] = Append(@, line),
                       !.task_id_counter = IF has_custom_id THEN @ ELSE @ + 1,
                       !.requests = @ + 1]

InitGenerator ==
    /\ NoPipeline
    /\ call = NoCall
    /\ generator = NewGenerator
    /\ batch_run = NoBatchRun

\* __enter__ of a generator used as a context manager
GeneratorEnter ==
    /\ generator.made
    /\ generator.requests = 0
    /\ generator.generated_files = {}
    /\ generator' = ensure_file_open(generator)
    /\ UNCHANGED << pipeline_vars, call, batch_run >>

AddRequest ==
    /\ generator.made
    /\ generator.requests < MaxRequests
    /\ \E line_size \in 1 .. MaxLineSize, has_custom_id \in BOOLEAN :
           generator' = add_request(generator, line_size, has_custom_id)
    /\ UNCHANGED << pipeline_vars, call, batch_run >>

\* __exit__, or a call of close_file between two requests
GeneratorClose ==
    /\ generator.made
    /\ generator.file_handle # -1
    /\ generator' = close_file(generator)
    /\ UNCHANGED << pipeline_vars, call, batch_run >>

NextGenerator == GeneratorEnter \/ AddRequest \/ GeneratorClose

SpecGenerator == InitGenerator /\ [][NextGenerator]_vars

\* ======================= batchruns/big_batch_loop.py: main ================

\* (scaled down)
MAX_CONCURRENT_BATCHES == 2

\* BATCH_INPUT_DIR holds the input files 1 .. NumInputFiles, named in this order
NumInputFiles == 3

InputFiles == 1 .. NumInputFiles

\* what client.batches.retrieve gives for a batch: a status (for "completed",
\* with whether the output file was then saved: an output_file_id is there and
\* its download succeeds), or an exception with its message
PollOutcomes ==
    [kind : {"status"}, status : {"validating", "in_progress", "queued", "finalizing",
                                  "failed", "cancelled", "expired"}, saved : {FALSE}]
    \cup [kind : {"status"}, status : {"completed"}, saved : BOOLEAN]
    \cup [kind : {"error"}, status : {"No batch found with id", "Connection error"},
          saved : {FALSE}]

NoStep == [op |-> "none"]

\* main() is about to run: any set of the input files has its output file in
\* BATCH_OUTPUT_DIR already.  uploads counts the calls of client.files.create
\* for each input file, last tells what the last step was given
InitBatchLoop ==
    /\ NoPipeline
    /\ call = NoCall
    /\ generator = NoGenerator
    /\ \E outputs \in SUBSET InputFiles :
         batch_run = [pc |-> "discover",
                      output_dir |-> outputs,
                      pending_files_queue |-> << >>,
                      active_batches |-> {},
                      batch_ids_to_check |-> {},
                      total_files_to_process |-> 0,
                      completed_batch_count |-> 0,
                      next_batch_id |-> 1,
                      uploads |-> [f \in InputFiles |-> 0],
                      last |-> NoStep]

\* (mutant: the test for an existing output file always negative)
OutputExistsNever(f, output_dir) == FALSE

\* "(BATCH_OUTPUT_DIR / expected_output_name).exists()"
OutputExists(f, output_dir) == f \in output_dir

\* the input files without an output file, in the sorted order of the glob
RECURSIVE FilesToProcess(_, _)
FilesToProcess(f, output_dir) ==
    IF f > NumInputFiles THEN << >>
    ELSE IF OutputExists(f, output_dir) THEN FilesToProcess(f + 1, output_dir)
    ELSE << f >> \o FilesToProcess(f + 1, output_dir)

\* step 1 of main: discover the input files, return when there is none to do
Discover ==
    /\ batch_run.pc = "discover"
    /\ LET files_to_process_paths == FilesToProcess(1, batch_run.output_dir)
       IN  batch_run' = [batch_run EXCEPT
               !.pc = IF files_to_process_paths = << >> THEN "done" ELSE "submit",
               !.pending_files_queue = files_to_process_paths,
               !.total_files_to_process = Len(files_to_process_paths),
               !.last = NoStep]
    /\ UNCHANGED << pipeline_vars, call, generator >>

\* (mutant: the submission loop without its limit)
HasCapacityAlways(active_batches) == TRUE

\* "len(active_batches) < MAX_CONCURRENT_BATCHES"
HasCapacity(active_batches) == Cardinality(active_batches) < MAX_CONCURRENT_BATCHES

\* one turn of the inner while loop of phase 1: pop the next file, skip it
\* when its output exists by now, else upload it and create its batch job;
\* the job is tracked when both calls succeed
SubmitNext ==
    /\ batch_run.pc = "submit"
    /\ HasCapacity(batch_run.active_batches)
    /\ batch_run.pending_files_queue # << >>
    /\ LET input_file_path == Head(batch_run.pending_files_queue)
           popped == [batch_run EXCEPT !.pending_files_queue = Tail(@)]
       IN  IF OutputExists(input_file_path, batch_run.output_dir)
             THEN batch_run' = [popped EXCEPT
                      !.total_files_to_process = @ - 1,
                      !.pc = IF batch_run.total_files_to_process - 1 = 0
                                /\ batch_run.active_batches = {}
                               THEN "check_done" ELSE "submit",
                      !.last = [op |-> "skip", file |-> input_file_path]]
             ELSE \E uploaded \in BOOLEAN, created \in BOOLEAN :
                    batch_run' = [popped EXCEPT
                      !.uploads[input_file_path] = @ + 1,
                      !.active_batches =
                          IF uploaded /\ created
                            THEN @ \cup {[batch_id |-> batch_run.next_batch_id,
                                          input_file_path |-> input_file_path,
                                          status |-> "submitted"]}
                            ELSE @,
                      !.next_batch_id = IF uploaded /\ created THEN @ + 1 ELSE @,
                      !.last = [op |-> "submit", file |-> input_file_path,
                                uploaded |-> uploaded, created |-> uploaded /\ created]]
    /\ UNCHANGED << pipeline_vars, call, generator >>

\* the inner loop ends; the check of line 184, and the batch ids that phase 2
\* goes through (in the order of the dict; the model takes them in any order)
SubmitEnd ==
    /\ batch_run.pc \in {"submit", "check_done"}
    /\ batch_run.pc = "submit" =>
           ~(HasCapacity(batch_run.active_batches) /\ batch_run.pending_files_queue # << >>)
    /\ batch_run' = [batch_run EXCEPT
           !.pc = IF /\ batch_run.pending_files_queue = << >>
                     /\ batch_run.active_batches = {}
                     /\ batch_run.total_files_to_process = 0
                    THEN "done" ELSE "monitor",
           !.batch_ids_to_check = { b.batch_id : b \in batch_run.active_batches },
           !.last = NoStep]
    /\ UNCHANGED << pipeline_vars, call, generator >>

\* (mutant: a batch is removed after any error of the retrieve call)
LeavesPoolOnAnyError(outcome) ==
    \/ outcome.kind = "status" /\ outcome.status \in {"completed", "failed", "cancelled", "expired"}
    \/ outcome.kind = "error"

\* the branches of phase 2 that end with "del active_batches[batch_id]"
LeavesPool(outcome) ==
    \/ outcome.kind = "status" /\ outcome.status \in {"completed", "failed", "cancelled", "expired"}
    \/ outcome.kind = "error" /\ outcome.status = "No batch found with id"

\* one turn of "for batch_id in batch_ids_to_check"
PollBatch ==
    /\ batch_run.pc = "monitor"
    /\ \E batch_info \in batch_run.active_batches, outcome \in PollOutcomes :
         /\ batch_info.batch_id \in batch_run.batch_ids_to_check
         /\ batch_run' = [batch_run EXCEPT
               !.batch_ids_to_check = @ \ {batch_info.batch_id},
               !.active_batches =
                   IF LeavesPool(outcome) THEN @ \ {batch_info}
                   ELSE IF outcome.kind = "status"
                     THEN (@ \ {batch_info})
                          \cup {[batch_info EXCEPT !.status = outcome.status]}
                   ELSE @,
               !.completed_batch_count = IF LeavesPool(outcome) THEN @ + 1 ELSE @,
               !.output_dir = IF outcome.saved THEN @ \cup {batch_info.input_file_path}
                              ELSE @,
               !.last = [op |-> "poll", batch_id |-> batch_info.batch_id,
                         outcome |-> outcome]]
    /\ UNCHANGED << pipeline_vars, call, generator >>

\* phase 2 is over: "if not pending_files_queue and not active_batches: break",
\* else time.sleep and the next cycle
EndCycle ==
    /\ batch_run.pc = "monitor"
    /\ batch_run.batch_ids_to_check = {}
    /\ batch_run' = [batch_run EXCEPT
           !.pc = IF batch_run.pending_files_queue = << >> /\ batch_run.active_batches = {}
                    THEN "done" ELSE "submit",
           !.last = NoStep]
    /\ UNCHANGED << pipeline_vars, call, generator >>

\* KeyboardInterrupt inside the try: the script logs and ends
Interrupt ==
    /\ batch_run.pc \in {"submit", "check_done", "monitor"}
    /\ batch_run' = [batch_run EXCEPT !.pc = "interrupted", !.last = NoStep]
    /\ UNCHANGED << pipeline_vars, call, generator >>

\* another process writes the output file of an input file that is still queued
OtherProcessWritesOutput ==
    /\ batch_run.pc \in {"submit", "monitor"}
    /\ \E k \in 1 .. Len(batch_run.pending_files_queue) :
         /\ batch_run.pending_files_queue[k] \notin batch_run.output_dir
         /\ batch_run' = [batch_run EXCEPT
                !.output_dir = @ \cup {batch_run.pending_files_queue[k]},
                !.last = NoStep]
    /\ UNCHANGED << pipeline_vars, call, generator >>

NextBatchLoop ==
    \/ Discover
    \/ SubmitNext
    \/ SubmitEnd
    \/ PollBatch
    \/ EndCycle
    \/ Interrupt
    \/ OtherProcessWritesOutput

SpecBatchLoop == InitBatchLoop /\ [][NextBatchLoop]_vars

\* ======================= the claims ======================================

\* C1: in every reachable state the ledger list collected_data_for_json holds
\* no two entries with the same filename
C1_NoDuplicateFilenames ==
    \A i, j \in 1 .. Len(collected_data_for_json) :
        i # j => collected_data_for_json[i].filename # collected_data_for_json[j].filename

\* (the asyncio script alone keeps the list free of duplicates)
C1_AsyncNoDuplicateFilenames == pipeline = "async" => C1_NoDuplicateFilenames

\* C2: once valid_pdfs_found_count has reached TARGET_PDF_COUNT no step appends
\* to the list, adds to the set of names or increments the counter, and the
\* counter never exceeds the target
C2_Saturation ==
    [][ /\ valid_pdfs_found_count >= TARGET_PDF_COUNT =>
              /\ Len(collected_data_for_json') = Len(collected_data_for_json)
              /\ already_found_pdf_names' = already_found_pdf_names
              /\ valid_pdfs_found_count' = valid_pdfs_found_count
        /\ valid_pdfs_found_count' <= TARGET_PDF_COUNT ]_vars

\* an acceptance attempt has just been turned down at the target, in a run
\* that started below it
C2_Witness ==
    /\ "refused_at_target" \in events
    /\ valid_pdfs_found_count = TARGET_PDF_COUNT
    /\ Len(db_file.data) < TARGET_PDF_COUNT

\* C3: the ledger holds no document whose token count is below MIN_TOKENS or
\* above MAX_TOKENS, in any state of a run and so at its end, in memory and in
\* the file written
C3_OnlyTokenCountsInRange ==
    /\ \A i \in 1 .. Len(collected_data_for_json) :
         /\ MIN_TOKENS <= collected_data_for_json[i].token_count
         /\ collected_data_for_json[i].token_count <= MAX_TOKENS
    /\ \A i \in 1 .. Len(db_file.data) :
         /\ MIN_TOKENS <= db_file.data[i].token_count
         /\ db_file.data[i].token_count <= MAX_TOKENS

\* a readable document has just been left out for its token count while the
\* run has accepted another document
C3_Witness ==
    /\ "out_of_range" \in events
    /\ Len(collected_data_for_json) > Len(db_file.data)

\* C4: in every state the set of names, the list and the counter have the same
\* size, and no step shrinks any of them
C4_SizesAgree ==
    /\ Cardinality(already_found_pdf_names) = Len(collected_data_for_json)
    /\ valid_pdfs_found_count = Len(collected_data_for_json)

C4_SizesAgreeAndGrow ==
    [][ /\ C4_SizesAgree'
        /\ Len(collected_data_for_json') >= Len(collected_data_for_json)
        /\ already_found_pdf_names \subseteq already_found_pdf_names'
        /\ valid_pdfs_found_count' >= valid_pdfs_found_count ]_vars


\* the downloads that are running
RunningDownloads == { z \in Zips : task[z].st \in {"downloading", "writing"} }

\* the download limit of the pipeline
DownloadLimit ==
    IF pipeline = "threaded" THEN MAX_CONCURRENT_DOWNLOADS ELSE NUM_CONCURRENT_PIPELINES

\* C5: once the ledger holds TARGET_PDF_COUNT entries no step takes a further
\* archive index off zip_file_indices to start its download
C5_NoFetchStartedAtTarget ==
    [][ Len(collected_data_for_json) >= TARGET_PDF_COUNT =>
            zip_file_indices' = zip_file_indices ]_vars

\* (the asyncio script alone starts no download at the target)
C5_AsyncNoFetchStartedAtTarget ==
    [][ pipeline = "async" /\ Len(collected_data_for_json) >= TARGET_PDF_COUNT =>
            zip_file_indices' = zip_file_indices ]_vars

\* C6: a run that has reached the target and stopped for it ends with every
\* download and processing task finished and the ledger written once to the
\* file (or the write failing with IOError); it does not end without the flush
C6_DrainThenFlushOnce ==
    (valid_pdfs_found_count >= TARGET_PDF_COUNT /\ stop_flag) =>
        /\ Ended => pc = "done"
        /\ pc = "done" =>
             /\ \A z \in Zips : ~Running(z)
             /\ flush_count = 1 \/ "io_error" \in events
        /\ flush_count <= 1
        /\ flush_count = 1 => pc = "done"

\* (the asyncio script alone drains and flushes once)
C6_AsyncDrainThenFlushOnce == pipeline = "async" => C6_DrainThenFlushOnce

\* C7: when a run that reached the target and stopped for it has ended, no
\* archive file is left in the staging directory
C7_StagingEmptyAtEnd ==
    (Ended /\ valid_pdfs_found_count >= TARGET_PDF_COUNT /\ stop_flag) => staging = {}

\* (the asyncio script alone leaves no archive file)
C7_AsyncStagingEmptyAtEnd == pipeline = "async" => C7_StagingEmptyAtEnd

\* C8: an archive whose processing has ended, with whatever outcome, has no
\* file in the staging directory (threaded: process_zip_file has returned;
\* asyncio: the orchestrator has handled the task's result)
C8_FileRemovedAfterProcessing ==
    \A z \in Zips : task[z].st \in {"processed", "reaped", "handled"} => z \notin staging

\* processing has ended for a corrupt or failing archive and, by the early
\* return at the target, for another one, and their files are gone
C8_Witness ==
    /\ \E z \in Zips : task[z].st = "processed" /\ task[z].result = "FAILURE"
    /\ \E z \in Zips : task[z].st = "processed" /\ task[z].result = "TARGET_REACHED"
    /\ staging # {}

\* C9: while archives remain unscheduled and the target is not reached, the
\* orchestrator is never left waiting with a free download slot, and a fetched
\* archive never waits for other downloads before it is handed to processing
C9_DownloadSlotNeverIdle ==
    ~ /\ zip_file_indices # << >>
      /\ valid_pdfs_found_count < TARGET_PDF_COUNT
      /\ ~stop_flag
      /\ Cardinality(RunningDownloads) < DownloadLimit
      /\ \/ /\ pc = "wait"
            /\ \A z \in active_tasks : ~Finished(z)
         \/ /\ pc \in {"reap_dl", "reap_proc"}
            /\ iter # {}
            /\ \A z \in iter : ~Finished(z)

C9_FetchedNeverWaitsForDownloads ==
    ~ \E z \in Zips :
        /\ task[z].st = "fetched"
        /\ pc = "reap_dl"
        /\ z \notin iter
        /\ iter # {}
        /\ \A y \in iter : task[y].st \in {"downloading", "writing"}

C9_DownloadsAndProcessingDecoupled ==
    C9_DownloadSlotNeverIdle /\ C9_FetchedNeverWaitsForDownloads

\* C10: in every state at most DownloadLimit downloads are in flight, counted
\* as the running downloads and as the pipeline's own set of download futures
C10_DownloadsWithinLimit ==
    /\ Cardinality(RunningDownloads) <= DownloadLimit
    /\ DownloadsInFlight <= DownloadLimit

\* the limit is reached while archives are still waiting to be fetched
C10_Witness ==
    /\ Cardinality(RunningDownloads) = DownloadLimit
    /\ zip_file_indices # << >>


\* C11: a download that fails is attempted again before the archive is counted
\* as failed.  Every archive index is submitted once, so each failure is that
\* of the first attempt: the step in which it fails has to leave the download
\* under way and not finished with an error
C11_FailedFetchIsAttemptedAgain ==
    [][ \A z \in Zips :
            (z \in RunningDownloads /\ task'[z].st \notin {"writing", "fetched", "queued"})
                => task'[z].st = "downloading" /\ task'[z].result # "FETCH_ERROR" ]_vars

\* the archives whose task a step changes
Changed == { z \in Zips : task'[z] # task[z] }

\* C12: a fetch that has failed leaves no file of the archive in staging and
\* is never handed to processing; the orchestrator receives the failure as a
\* value (it goes on where it was, no exception ends the run) and, unless it
\* has stopped, submits the next archive in the same step
C12_FailedFetchIsSkipped ==
    [][ \A z \in Changed :
          /\ task'[z].result = "FETCH_ERROR" =>
                /\ z \notin staging'
                /\ task'[z].st \in {"fetch_failed", "dropped", "finished"}
          /\ (task[z].st = "fetch_failed" /\ task'[z].st = "dropped") =>
                /\ pc' = pc
                /\ z \notin process_futures'
                /\ (~stop_flag /\ zip_file_indices # << >>) =>
                       task'[Head(zip_file_indices)].st = "downloading"
          /\ (task[z].result = "FETCH_ERROR" /\ task'[z].st = "handled") =>
                /\ pc' \in {"handle", "wait", "save"}
                /\ UNCHANGED ledger
                /\ (MaySchedule(stop_flag, valid_pdfs_found_count) /\ zip_file_indices # << >>) =>
                       task'[Head(zip_file_indices)].st = "downloading" ]_vars

\* a failed fetch has been received by the orchestrator, a second download
\* has failed, their files are not in staging, and a later archive is being
\* fetched and has its file there
C12_Witness ==
    /\ \E z \in Zips : task[z].result = "FETCH_ERROR" /\ task[z].st = "dropped"
                       /\ z \notin staging
    /\ \E z \in Zips : task[z].result = "FETCH_ERROR" /\ task[z].st = "fetch_failed"
                       /\ z \notin staging
    /\ \E z \in Zips : task[z].st = "writing" /\ z \in staging

\* C13: an archive that does not open ends as a failure of that archive alone:
\* the step leaves the ledger as it is, the orchestrator that receives the
\* failure neither stops nor ends with an exception and goes on scheduling,
\* and the archive is never processed again
C13_CorruptArchiveIsSkipped ==
    [][ \A z \in Changed :
          /\ (task[z].st = "queued" /\ task'[z].st = "processed") =>
                /\ task'[z].result = "FAILURE"
                /\ UNCHANGED << ledger, stop_flag, pc >>
          /\ (task[z].st = "processed" /\ task[z].result = "FAILURE") =>
                /\ task'[z].st = "reaped"
                /\ UNCHANGED << ledger, stop_flag, pc, download_futures >>
          /\ task[z].result = "PROCESS_ERROR" =>
                /\ task'[z].st = "handled"
                /\ UNCHANGED << ledger, stop_flag >>
                /\ pc' \in {"handle", "wait", "save"}
                /\ (MaySchedule(stop_flag, valid_pdfs_found_count) /\ zip_file_indices # << >>) =>
                       task'[Head(zip_file_indices)].st = "downloading"
          /\ task[z].st \notin {"reaped", "handled"} ]_vars

\* an archive has just failed to open while another archive has a document
\* about to be accepted
C13_Witness ==
    /\ "corrupt_archive" \in events
    /\ \E z \in Zips : task[z].st = "processed" /\ task[z].result = "FAILURE"
    /\ \E z \in Zips : task[z].st = "accepting"
    /\ valid_pdfs_found_count < TARGET_PDF_COUNT

\* C14: an exception on one document only skips that document: the step that
\* handles one entry of an archive ends the archive's processing only with
\* the target reached, never with a failure of the whole archive
C14_DocumentFailureSkipsOnlyTheDocument ==
    [][ \A z \in Zips :
            (task[z].st = "processing" /\ task'[z].st = "processed")
                => task'[z].result \in {"SUCCESS", "TARGET_REACHED"} ]_vars

\* the entries of a list that carry the filename f, in the list's order
EntriesNamed(data, f) ==
    LET HasName(e) == e.filename = f
    IN  SelectSeq(data, HasName)

\* C15: a filename that is in the ledger keeps its entries as they are: no step
\* adds another entry of that name, replaces the entry or removes it
C15_FirstAcceptedWins ==
    [][ \A f \in Filenames(collected_data_for_json) :
            EntriesNamed(collected_data_for_json', f) = EntriesNamed(collected_data_for_json, f)
      ]_vars

\* (the asyncio script alone keeps the first entry of every name)
C15_AsyncFirstAcceptedWins ==
    [][ pipeline = "async" =>
          \A f \in Filenames(collected_data_for_json) :
            EntriesNamed(collected_data_for_json', f) = EntriesNamed(collected_data_for_json, f)
      ]_vars

\* the entries loaded at startup (the file is as it was until the save)
LoadedData == IF db_file.exists /\ db_file.parsable THEN db_file.data ELSE << >>

\* C16: when the run comes to its save below the target, the ledger is the
\* loaded entries followed by exactly one entry for every name of a document
\* in range that the archives opened in the run hold, and nothing else
C16_FinalLedgerIsComplete ==
    (pc = "save" /\ valid_pdfs_found_count < TARGET_PDF_COUNT) =>
        /\ Filenames(collected_data_for_json) = Filenames(LoadedData) \cup offered
        /\ Len(collected_data_for_json) = Cardinality(Filenames(collected_data_for_json))
        /\ SubSeq(collected_data_for_json, 1, Len(LoadedData)) = LoadedData

\* (the other half holds: the ledger at the save holds the loaded entries first,
\* one entry per name, and no name that was neither loaded nor offered)
C16_NothingElseIsAdded ==
    (pc = "save" /\ valid_pdfs_found_count < TARGET_PDF_COUNT) =>
        /\ Filenames(collected_data_for_json) \subseteq Filenames(LoadedData) \cup offered
        /\ Len(collected_data_for_json) = Cardinality(Filenames(collected_data_for_json))
        /\ SubSeq(collected_data_for_json, 1, Len(LoadedData)) = LoadedData

\* the orders in which the entries of a list of n entries can have been appended
Orders(n) == { f \in [1 .. n -> 1 .. n] : \A i, j \in 1 .. n : i # j => f[i] # f[j] }

Reordered(data, f) == [i \in 1 .. Len(data) |-> data[f[i]]]

\* C17: the file written is sorted by filename, and it is what the save would
\* have written had the same entries been appended in any other order
C17_FlushIsSortedAndOrderIndependent ==
    flush_count = 1 =>
        /\ \A i \in 1 .. Len(db_file.data) - 1 :
               db_file.data[i].filename <= db_file.data[i + 1].filename
        /\ \A f \in Orders(Len(collected_data_for_json)) :
               SortByFilename(Reordered(collected_data_for_json, f)) = db_file.data

\* (the asyncio script alone writes a file that does not depend on the order)
C17_AsyncFlushIsSortedAndOrderIndependent ==
    pipeline = "async" => C17_FlushIsSortedAndOrderIndependent

\* C18: every step leaves the ledger file either as it was or holding the
\* complete new array, the sorted list of the ledger
C18_FlushIsAtomic ==
    [][ \/ db_file' = db_file
        \/ db_file' = [exists |-> TRUE, parsable |-> TRUE,
                       data |-> SortByFilename(collected_data_for_json)] ]_vars

\* the set of names and the counter that the startup of a run makes of a file
Reloaded(file) ==
    IF file.exists /\ file.parsable
      THEN [names |-> LoadedNames(file.data),
            count |-> LoadedCount(file.data, LoadedNames(file.data))]
      ELSE [names |-> {}, count |-> 0]

\* C19: in every state from which a run can come to its save, saving the
\* ledger and loading the file at the next startup gives the ledger's set of
\* names again, and a counter equal to the size of that set
C19_FlushThenLoadRoundTrip ==
    pc # "load" =>
        LET L == Reloaded(FlushedFile(collected_data_for_json, db_file))
        IN  /\ L.names = already_found_pdf_names
            /\ L.count = Cardinality(L.names)

\* a run that accepted documents has written its file, and the file loads to
\* the set of names of the ledger
C19_Witness ==
    /\ flush_count = 1
    /\ offered # {}
    /\ Len(collected_data_for_json) >= 2
    /\ Reloaded(db_file).names = already_found_pdf_names

C20_WitnessAtTarget ==
    /\ pc = "save"
    /\ Len(LoadedData) >= TARGET_PDF_COUNT

\* C21: a save that fails does not end the run as a normal completion (the
\* final report "Processing Complete" and exit status 0 of pc = "done"), and
\* the step keeps every entry of the list in memory
C21_SaveFailureIsFatal ==
    [][ "io_error" \in events' =>
            /\ pc' # "done"
            /\ \A f \in Filenames(collected_data_for_json) :
                   EntriesNamed(collected_data_for_json', f)
                       = EntriesNamed(collected_data_for_json, f) ]_vars

\* (the other half holds: the failing save keeps the entries in memory, and
\* the file is only ever changed by a save)
C21_SaveFailureKeepsTheList ==
    [][ "io_error" \in events' =>
            /\ Len(collected_data_for_json') = Len(collected_data_for_json)
            /\ \A f \in Filenames(collected_data_for_json) :
                   EntriesNamed(collected_data_for_json', f)
                       = EntriesNamed(collected_data_for_json, f) ]_vars

\* every archive index was taken, and its task ran to its end and was
\* received by the orchestrator
AllArchivesDone ==
    /\ zip_file_indices = << >>
    /\ \A z \in Zips : task[z].st \in {"dropped", "reaped", "handled"}

\* C22: a run that ends below the target has ended normally, after every
\* archive index was fetched or failed to be fetched and every task finished,
\* with the save made (nothing is written for an empty ledger) and with the
\* shortfall warning, which is printed when the stop flag is not set
C22_ShortfallRunCompletes ==
    (Ended /\ valid_pdfs_found_count < TARGET_PDF_COUNT) =>
        /\ pc = "done"
        /\ AllArchivesDone
        /\ flush_count = 1 \/ "io_error" \in events \/ collected_data_for_json = << >>
        /\ ~stop_flag

\* (the asyncio script alone ends a shortfall run normally)
C22_AsyncShortfallRunCompletes == pipeline = "async" => C22_ShortfallRunCompletes

\* (so does the threaded script in the runs in which as_completed never times out)
C22_ShortfallRunCompletesWithoutTimeout == pc # "TimeoutError" => C22_ShortfallRunCompletes

\* the number a sequence of decimal digits stands for
RECURSIVE ValueOf(_)
ValueOf(digits) ==
    IF digits = << >> THEN 0
    ELSE 10 * ValueOf(SubSeq(digits, 1, Len(digits) - 1)) + digits[Len(digits)]

IsDigits(s) == \A k \in 1 .. Len(s) : s[k] \in 0 .. 9

\* C24: the URL returned for the archive number i is the base URL, "zipfiles/",
\* the bucket 1000*(i div 1000) and the bucket's end 999 above it, each in
\* four digits, and the file name: i in four digits and ".zip".  The local
\* path is that file name directly inside the staging directory.  The number
\* i is read back from the URL and from the path, so distinct numbers give
\* distinct URLs and distinct paths
C24_LocatorIsBucketedAndInjective ==
    (call.fn = "get_zip_url_and_local_path" /\ call.returned) =>
        LET i == call.zip_num_int
            url == call.result.full_zip_url
            path == call.result.local_download_path
            name == SubSeq(path, Len(path) - 7, Len(path))
            bucket == SubSeq(url, 11, 14)
            bucket_end == SubSeq(url, 16, 19)
        IN  /\ Len(path) = 10 /\ Len(url) = 28
            /\ SubSeq(path, 1, 2) = TEMP_ZIP_DOWNLOAD_DIR(call.script) \o << "/" >>
            /\ IsDigits(SubSeq(name, 1, 4)) /\ ValueOf(SubSeq(name, 1, 4)) = i
            /\ SubSeq(name, 5, 8) = << ".", "z", "i", "p" >>
            /\ SubSeq(url, 1, 10) = BASE_URL \o << "z", "i", "p", "f", "i", "l", "e", "s", "/" >>
            /\ IsDigits(bucket) /\ IsDigits(bucket_end)
            /\ ValueOf(bucket) = 1000 * (i \div 1000)
            /\ ValueOf(bucket_end) = ValueOf(bucket) + 999
            /\ ValueOf(bucket) <= i /\ i <= ValueOf(bucket_end)
            /\ url[15] = "-" /\ url[20] = "/"
            /\ SubSeq(url, 21, 28) = name
            /\ \A j \in { i - 1000, i - 1, i + 1, i + 1000 } \cap (0 .. MaxZipNum) :
                   /\ get_zip_url_and_local_path(call.script, j).full_zip_url # url
                   /\ get_zip_url_and_local_path(call.script, j).local_download_path # path

\* the function has returned for the largest archive number, which is not the
\* first of its bucket
C24_Witness ==
    /\ call.fn = "get_zip_url_and_local_path" /\ call.returned
    /\ call.zip_num_int = MaxZipNum
    /\ SubSeq(call.result.full_zip_url, 11, 14) # SubSeq(call.result.full_zip_url, 21, 24)

\* the path at which a task keeps the file of its archive
local_zip_filepath(z) == get_zip_url_and_local_path(pipeline, z).local_download_path

\* the archives that have a task in flight: submitted and not yet received by
\* the main thread or the orchestrator as finished
InFlight == { z \in Zips : Running(z) \/ Finished(z) }

\* C23: an archive index is handed to a download only when it has never been
\* scheduled and to processing only from its own download, the indices still
\* to be taken are those never scheduled, each once, and a task that is
\* submitted takes a local path that no other task in flight has
C23_EachArchiveOnceAndPathsApart ==
    [][ /\ \A z \in Changed :
              /\ task'[z].st = "downloading" =>
                     /\ task[z].st = "unscheduled"
                     /\ \A y \in InFlight' \ {z} :
                            local_zip_filepath(y) # local_zip_filepath(z)
              /\ task'[z].st = "queued" => task[z].st \in {"fetched", "writing"}
              /\ (task'[z].st = "processing" /\ task[z].st \notin {"processing", "accepting"})
                     => task[z].st = "queued"
              /\ task'[z].st # "unscheduled"
        /\ { zip_file_indices'[k] : k \in 1 .. Len(zip_file_indices') }
               = { z \in Zips : task'[z].st = "unscheduled" }
        /\ \A k, l \in 1 .. Len(zip_file_indices') :
               k # l => zip_file_indices'[k] # zip_file_indices'[l] ]_vars

\* two downloads are writing their files while a third archive is being
\* processed and another is still to be taken
C23_Witness ==
    /\ Cardinality({ z \in Zips : task[z].st = "writing" /\ z \in staging }) >= 2
    /\ \E z \in Zips : task[z].st = "processing" /\ z \in staging
    /\ zip_file_indices # << >>

\* C25: detect_language never raises; for a text of fewer than 50 characters
\* it returns the sentinel for a short text without calling the detector, for
\* a text of 50 characters or more it calls the detector, and when the
\* detector raises it returns "unknown"
C25_ClassifierDegradesToSentinels ==
    (call.fn = "detect_language" /\ call.returned) =>
        /\ ~call.raised
        /\ call.text_len < TooShortLimit =>
               call.result = "too_short_for_detection" /\ ~call.detector_called
        /\ call.text_len >= TooShortLimit => call.detector_called
        /\ (call.detector_called /\ call.detector = "raises") => call.result = "unknown"

\* (with the threshold one higher the statement holds: 50 characters are
\* still too short, 51 are handed to the detector)
C25_ClassifierWithThresholdAbove ==
    (call.fn = "detect_language" /\ call.returned) =>
        /\ ~call.raised
        /\ call.text_len < TooShortLimit + 1 =>
               call.result = "too_short_for_detection" /\ ~call.detector_called
        /\ call.text_len >= TooShortLimit + 1 =>
               /\ call.detector_called
               /\ call.result = IF call.detector = "raises" THEN "unknown" ELSE call.detector

\* the lines of all the files of the generator
WrittenLines(g) ==
    { << k, n >> \in FileIndices \X (1 .. MaxRequests) : n <= Len(g.files[k]) }

\* C26: after every step of a generator, a file that holds more than one line
\* has at most max_file_size_bytes bytes, a line of more bytes than that is
\* the only line of its file, every request made so far has its line in
\* exactly one place of one file, the files that hold lines are generated
\* files, and current_file_index has not decreased
C26_FilesWithinLimit ==
    [][ generator'.made =>
          /\ \A k \in FileIndices :
                 /\ Len(generator'.files[k]) > 1 =>
                        FileSize(generator'.files[k]) <= generator'.max_file_size_bytes
                 /\ \A n \in 1 .. Len(generator'.files[k]) :
                        generator'.files[k][n].size > generator'.max_file_size_bytes
                            => Len(generator'.files[k]) = 1
                 /\ generator'.files[k] # << >> => k \in generator'.generated_files
          /\ \A r \in 1 .. generator'.requests :
                 Cardinality({ w \in WrittenLines(generator') :
                                   generator'.files[w[1]][w[2]].request = r }) = 1
          /\ Cardinality(WrittenLines(generator')) = generator'.requests
          /\ generator'.current_file_index >= generator.current_file_index ]_vars

\* a line larger than the limit has been written alone into a file that was
\* opened for it, between a file of several lines and a later file
C26_Witness ==
    /\ generator.made
    /\ \E k \in FileIndices :
           /\ Len(generator.files[k]) = 1
           /\ generator.files[k][1].size > generator.max_file_size_bytes
           /\ k > 0 /\ Len(generator.files[k - 1]) > 1
           /\ k < generator.current_file_index

\* C27: in every state of the batch submission loop at most
\* MAX_CONCURRENT_BATCHES batch jobs are tracked as active
C27_ActiveBatchesWithinLimit ==
    batch_run.pc # "off" =>
        Cardinality(batch_run.active_batches) <= MAX_CONCURRENT_BATCHES

\* the pool is full with files still pending, after a cycle in which a batch
\* was polled as in progress
C27_Witness ==
    /\ batch_run.pc = "submit"
    /\ Cardinality(batch_run.active_batches) = MAX_CONCURRENT_BATCHES
    /\ batch_run.pending_files_queue # << >>
    /\ \E b \in batch_run.active_batches : b.status = "in_progress"

BatchIds(active_batches) == { b.batch_id : b \in active_batches }

\* the poll outcomes after which the claim lets a batch leave the pool
C28_TerminalOutcome(outcome) ==
    \/ outcome.kind = "status" /\ outcome.status = "completed"
    \/ outcome.kind = "status" /\ outcome.status = "failed"
    \/ outcome.kind = "status" /\ outcome.status = "cancelled"
    \/ outcome.kind = "status" /\ outcome.status = "expired"
    \/ outcome.kind = "error" /\ outcome.status = "No batch found with id"

\* C28: a batch leaves the active pool only in the step that polled it and
\* was given a terminal status or the error of an unknown batch id; a batch
\* polled with any other outcome stays in the pool; and the loop comes to its
\* normal end only with the pending queue and the pool both empty
C28_BatchLeavesOnlyWhenTerminal ==
    [][ batch_run'.pc # "off" =>
          /\ \A id \in BatchIds(batch_run.active_batches) \ BatchIds(batch_run'.active_batches) :
                 /\ batch_run'.last.op = "poll"
                 /\ batch_run'.last.batch_id = id
                 /\ C28_TerminalOutcome(batch_run'.last.outcome)
          /\ (batch_run'.last.op = "poll" /\ ~C28_TerminalOutcome(batch_run'.last.outcome)) =>
                 /\ batch_run'.last.batch_id \in BatchIds(batch_run'.active_batches)
                 /\ batch_run'.pc = "monitor"
          /\ batch_run'.pc = "done" =>
                 /\ batch_run'.pending_files_queue = << >>
                 /\ batch_run'.active_batches = {} ]_vars

\* a batch has just been polled with a retrieve error that names no unknown
\* id and is still in the pool, after another batch left it and while a third
\* file is pending
C28_Witness ==
    /\ batch_run.pc = "monitor"
    /\ batch_run.last.op = "poll"
    /\ batch_run.last.outcome.kind = "error"
    /\ batch_run.last.batch_id \in BatchIds(batch_run.active_batches)
    /\ batch_run.completed_batch_count > 0
    /\ batch_run.pending_files_queue # << >>

Queued(queue) == { queue[k] : k \in 1 .. Len(queue) }

\* C29: no input file is uploaded twice; a file is uploaded only in the step
\* that takes it off the queue and finds no output file for it; the files
\* that have an output file at the discovery are not queued and no file comes
\* back to the queue; and a file whose upload or job creation failed is off
\* the queue and has no batch in the pool
C29_UploadedAtMostOnce ==
    [][ batch_run'.pc # "off" =>
          /\ \A f \in InputFiles :
                 /\ batch_run'.uploads[f] <= 1
                 /\ batch_run'.uploads[f] > batch_run.uploads[f] =>
                        /\ f = Head(batch_run.pending_files_queue)
                        /\ f \notin batch_run.output_dir
          /\ IF batch_run.pc = "discover"
               THEN Queued(batch_run'.pending_files_queue) = InputFiles \ batch_run.output_dir
               ELSE Queued(batch_run'.pending_files_queue)
                        \subseteq Queued(batch_run.pending_files_queue)
          /\ (batch_run'.last.op = "submit" /\ ~batch_run'.last.created) =>
                 /\ batch_run'.last.file \notin Queued(batch_run'.pending_files_queue)
                 /\ \A b \in batch_run'.active_batches :
                        b.input_file_path # batch_run'.last.file
                 /\ batch_run'.active_batches = batch_run.active_batches ]_vars

\* a file has just been taken off the queue and skipped for an output file
\* that was not there at the discovery, after an earlier file was uploaded
\* and dropped because its upload or the creation of its batch job failed
C29_Witness ==
    /\ batch_run.pc = "submit"
    /\ batch_run.last.op = "skip"
    /\ batch_run.completed_batch_count = 0
    /\ \E f \in InputFiles :
           /\ batch_run.uploads[f] = 1
           /\ \A b \in batch_run.active_batches : b.input_file_path # f
    /\ batch_run.pending_files_queue # << >>

\* C30: a run over a ledger file that does not parse never ends at its
\* startup with an exception; it comes out of the load with an empty list, an
\* empty set of names and the counter at zero; and a save that writes the
\* file writes the sorted list, which holds only documents of this run
C30_UnparsableLedgerStartsFresh ==
    [][ /\ pc' # "UnicodeDecodeError"
        /\ pc = "load" =>
              /\ collected_data_for_json' = << >>
              /\ already_found_pdf_names' = {}
              /\ valid_pdfs_found_count' = 0
        /\ (db_file' # db_file /\ db_file'.parsable) =>
              /\ db_file = UnparsableFile
              /\ db_file'.data = SortByFilename(collected_data_for_json)
              /\ Filenames(db_file'.data) \subseteq offered ]_vars

\* (the statement holds of the runs whose file decodes as text)
C30_StartsFreshWhenTheFileDecodes ==
    [][ pc' # "UnicodeDecodeError" =>
          /\ pc = "load" =>
                /\ pc' = "seed"
                /\ collected_data_for_json' = << >>
                /\ already_found_pdf_names' = {}
                /\ valid_pdfs_found_count' = 0
          /\ (db_file' # db_file /\ db_file'.parsable) =>
                /\ db_file = UnparsableFile
                /\ db_file'.data = SortByFilename(collected_data_for_json)
                /\ Filenames(db_file'.data) \subseteq offered ]_vars

====
